---- MODULE Spec2Model ----
(***************************************************************************)
(* Bar-schedule comparison app (bs-compare-app).                           *)
(*                                                                         *)
(* Two builds of App.jsx are modelled side by side:                        *)
(*   variant "halve"  : src/src/App.jsx      (global flag halves the tally)*)
(*   variant "double" : src/unnamed/part_000 (per-mark section view        *)
(*                                            doubles the required qty)    *)
(* Text is a sequence of one-character strings, so that the regular        *)
(* expressions of the extractors are run character by character.           *)
(***************************************************************************)
EXTENDS Integers, Sequences, FiniteSets, TLC

VARIABLES
  variant,          \* which build runs: "halve" | "double"
  locale,           \* the host's default locale, read by String.localeCompare
  file1, file2,     \* useState file1 / file2: the file last selected per slot
  text1, text2,     \* useState text1 / text2
  pending,          \* handleUpload calls in flight, per slot, in start order
  results,          \* useState results: the table rows
  sectionAndLayout, \* useState sectionAndLayout
  ignoredRows,      \* useState ignoredRows: mark -> BOOLEAN (partial)
  inSectionRows,    \* useState inSectionRows (part_000 only): mark -> BOOLEAN
  clicks,           \* row checkbox clicks so far (bounds the session)
  overlap,          \* how many handleUpload calls the session has in flight at most
  arg, ret          \* input and output of a pure function under test

vars == <<variant, locale, file1, file2, text1, text2, pending, results,
          sectionAndLayout, ignoredRows, inSectionRows, clicks, overlap, arg, ret>>

----------------------------------------------------------------------------
(* Characters and JavaScript regular-expression character classes.         *)

Digits == {"0", "1", "2", "3", "4", "5", "6", "7", "8", "9"}

Upper == {"A", "B", "C", "D", "E", "F", "G", "H", "I", "J", "K", "L", "M",
          "N", "O", "P", "Q", "R", "S", "T", "U", "V", "W", "X", "Y", "Z"}

Lower == {"a", "b", "c", "d", "e", "f", "g", "h", "i", "j", "k", "l", "m",
          "n", "o", "p", "q", "r", "s", "t", "u", "v", "w", "x", "y", "z"}

Spaces == {" ", "\n", "\t", "\r"}

\* \d, [A-Z], \s, \w
IsDigit(c) == c \in Digits
IsUpper(c) == c \in Upper
IsSpace(c) == c \in Spaces
WordChars == Digits \cup Upper \cup Lower \cup {"_"}
IsWord(c) == c \in WordChars

\* one pattern atom against one character
InClass(c, cls) ==
  CASE cls = "d" -> IsDigit(c)
    [] cls = "s" -> IsSpace(c)
    [] cls = "U" -> IsUpper(c)
    [] cls = "-" -> c = "-"

\* text.substring(i-1, j-1): characters i .. j-1 (1-based, end exclusive)
Sub(text, i, j) == [k \in 1..(j - i) |-> text[i + k - 1]]

DigitVal(c) ==
  CASE c = "0" -> 0 [] c = "1" -> 1 [] c = "2" -> 2 [] c = "3" -> 3
    [] c = "4" -> 4 [] c = "5" -> 5 [] c = "6" -> 6 [] c = "7" -> 7
    [] c = "8" -> 8 [] c = "9" -> 9

\* parseInt(s, 10) on a captured run of decimal digits
RECURSIVE parseInt(_)
parseInt(s) ==
  IF Len(s) = 0 THEN 0
  ELSE parseInt(SubSeq(s, 1, Len(s) - 1)) * 10 + DigitVal(s[Len(s)])

----------------------------------------------------------------------------
(* RegExp.prototype.exec: a backtracking matcher.  A pattern is a sequence *)
(* of items: a word boundary, a quantified character class (greedy), or    *)
(* the opening of a greedy optional group spanning the next len items.     *)

B == [kind |-> "b"]
One(cls) == [kind |-> "cls", cls |-> cls, min |-> 1, max |-> 1, inf |-> FALSE]
Plus(cls) == [kind |-> "cls", cls |-> cls, min |-> 1, max |-> 1, inf |-> TRUE]
Star(cls) == [kind |-> "cls", cls |-> cls, min |-> 0, max |-> 0, inf |-> TRUE]
Rep(cls, lo, hi) == [kind |-> "cls", cls |-> cls, min |-> lo, max |-> hi, inf |-> FALSE]
Opt(n) == [kind |-> "opt", len |-> n]

\* \b at position i (between character i-1 and character i)
IsBoundary(text, i) ==
  LET before == i > 1 /\ IsWord(text[i - 1])
      after == i <= Len(text) /\ IsWord(text[i])
  IN before # after

\* length of the run of cls characters that starts at position i
RECURSIVE RunLen(_, _, _)
RunLen(text, i, cls) ==
  IF i <= Len(text) /\ InClass(text[i], cls) THEN 1 + RunLen(text, i + 1, cls) ELSE 0

NoMatch == [ok |-> FALSE, ends |-> <<>>]

Prepend(e, r) == [ok |-> TRUE, ends |-> <<e>> \o r.ends]

Least(a, b) == IF a < b THEN a ELSE b

\* Match items k.. of pat at position i.  On success ends[j] is the position
\* just after item k+j-1.  TryCount gives a quantified class n characters
\* and, when the rest of the pattern fails, backtracks to n-1.
RECURSIVE MatchFrom(_, _, _, _)
RECURSIVE TryCount(_, _, _, _, _)
MatchFrom(pat, k, text, i) ==
  IF k > Len(pat) THEN [ok |-> TRUE, ends |-> <<>>]
  ELSE LET it == pat[k] IN
    CASE it.kind = "b" ->
           IF IsBoundary(text, i)
           THEN LET r == MatchFrom(pat, k + 1, text, i)
                IN IF r.ok THEN Prepend(i, r) ELSE NoMatch
           ELSE NoMatch
      [] it.kind = "opt" ->
           LET r == MatchFrom(pat, k + 1, text, i)
           IN IF r.ok THEN Prepend(i, r)
              ELSE LET s == MatchFrom(pat, k + 1 + it.len, text, i)
                   IN IF s.ok
                      THEN [ok |-> TRUE,
                            ends |-> [j \in 1..(it.len + 1) |-> i] \o s.ends]
                      ELSE NoMatch
      [] it.kind = "cls" ->
           LET run == RunLen(text, i, it.cls)
           IN TryCount(pat, k, text, i,
                       IF it.inf THEN run ELSE Least(it.max, run))
TryCount(pat, k, text, i, n) ==
  IF n < pat[k].min THEN NoMatch
  ELSE LET r == MatchFrom(pat, k + 1, text, i + n)
       IN IF r.ok THEN Prepend(i + n, r)
          ELSE TryCount(pat, k, text, i, n - 1)

\* pattern.exec(text) with the g flag: the first position >= lastIndex at
\* which the pattern matches; start = 0 stands for the null result.
RECURSIVE Exec(_, _, _)
Exec(pat, text, lastIndex) ==
  IF lastIndex > Len(text) + 1 THEN [start |-> 0, ends |-> <<>>]
  ELSE LET r == MatchFrom(pat, 1, text, lastIndex)
       IN IF r.ok THEN [start |-> lastIndex, ends |-> r.ends]
          ELSE Exec(pat, text, lastIndex + 1)

\* while ((match = pattern.exec(text)) !== null) data.push(...)
RECURSIVE ExecAll(_, _, _)
ExecAll(pat, text, lastIndex) ==
  LET m == Exec(pat, text, lastIndex)
  IN IF m.start = 0 THEN <<>>
     ELSE <<m>> \o ExecAll(pat, text, m.ends[Len(pat)])

\* the text captured by items a..b of the pattern in match m
Group(text, m, a, b) ==
  Sub(text, IF a = 1 THEN m.start ELSE m.ends[a - 1], m.ends[b])

\* /\b(\d+)\s+([A-Z]\d+)\s+\d+\s+\d+\s+([A-Z]{1,3}\d+)\b/g
Page1Pattern ==
  << B, Plus("d"), Plus("s"), One("U"), Plus("d"), Plus("s"), Plus("d"),
     Plus("s"), Plus("d"), Plus("s"), Rep("U", 1, 3), Plus("d"), B >>

\* (mutation of Page2Pattern: the closing \b is left out)
Page2PatternOpenEnd ==
  << B, Plus("d"), One("U"), Plus("d"), One("-"), Rep("U", 1, 3), Plus("d"),
     Opt(2), One("-"), Plus("d") >>
\* /\b(\d+)([A-Z]\d+)-([A-Z]{1,3}\d+)(?:-\d+)?\b/g        (App.jsx)
Page2Pattern ==
  << B, Plus("d"), One("U"), Plus("d"), One("-"), Rep("U", 1, 3), Plus("d"),
     Opt(2), One("-"), Plus("d"), B >>

\* /\b(\d+)\s*([A-Z]\d+)\s*-\s*([A-Z]{1,3}\d+)(?:-\s*\d+)?\b/g  (part_000)
Page2PatternWs ==
  << B, Plus("d"), Star("s"), One("U"), Plus("d"), Star("s"), One("-"),
     Star("s"), Rep("U", 1, 3), Plus("d"),
     Opt(3), One("-"), Star("s"), Plus("d"), B >>

extractPage1Data(text) ==
  LET ms == ExecAll(Page1Pattern, text, 1)
  IN [n \in 1..Len(ms) |->
       [required |-> parseInt(Group(text, ms[n], 2, 2)),
        diameter |-> Group(text, ms[n], 4, 5),
        mark |-> Group(text, ms[n], 11, 12)]]

extractPage2Data(text) ==
  LET ms == ExecAll(Page2Pattern, text, 1)
  IN [n \in 1..Len(ms) |->
       [count |-> parseInt(Group(text, ms[n], 2, 2)),
        diameter |-> Group(text, ms[n], 3, 4),
        mark |-> Group(text, ms[n], 6, 7)]]

extractPage2DataWs(text) ==
  LET ms == ExecAll(Page2PatternWs, text, 1)
  IN [n \in 1..Len(ms) |->
       [count |-> parseInt(Group(text, ms[n], 2, 2)),
        diameter |-> Group(text, ms[n], 4, 5),
        mark |-> Group(text, ms[n], 9, 10)]]

----------------------------------------------------------------------------
(* Documents the user can select.  A document is a sequence of pages, each *)
(* a sequence of text items (pdf.js content.items[].str); a corrupt        *)
(* document makes getDocument reject.                                      *)

MaxInFlight == 1
MaxClicks == 2

Chars(w) ==
  CASE w = "1" -> <<"1">>
    [] w = "2" -> <<"2">>
    [] w = "3" -> <<"3">>
    [] w = "4" -> <<"4">>
    [] w = "100" -> <<"1", "0", "0">>
    [] w = "Y12" -> <<"Y", "1", "2">>
    [] w = "R10" -> <<"R", "1", "0">>
    [] w = "CH9" -> <<"C", "H", "9">>
    [] w = "CH10" -> <<"C", "H", "1", "0">>
    [] w = "D1" -> <<"D", "1">>
    [] w = "A9" -> <<"A", "9">>
    [] w = "A10" -> <<"A", "1", "0">>
    [] w = "-" -> <<"-">>
    [] w = "Qty" -> <<"Q", "t", "y">>
    [] w = "1R10" -> <<"1", "R", "1", "0">>
    [] w = "3Y12-CH9-200" ->
         <<"3", "Y", "1", "2", "-", "C", "H", "9", "-", "2", "0", "0">>
    [] w = "4R10-CH10-150" ->
         <<"4", "R", "1", "0", "-", "C", "H", "1", "0", "-", "1", "5", "0">>
    [] w = "2Y12-B7" -> <<"2", "Y", "1", "2", "-", "B", "7">>

Words(ws) == [n \in 1..Len(ws) |-> Chars(ws[n])]

\* e.target.files[0] when the dialog is cancelled
NoFile == "none"

Slot1Files == {"ReqA", "ReqB", "Bad"}
Slot2Files == {"TalA", "Bad"}

\* whether pdfjsLib.getDocument(fileURL).promise resolves
Decodes(f) == f # "Bad"

\* the text items of the pages of a document
Pages(f) ==
  CASE f = "ReqA" ->
         << Words(<<"Qty", "3", "Y12", "100", "3", "CH9",
                    "3", "Y12", "100", "3", "CH10">>),
            Words(<<"2", "R10", "100", "2", "CH9">>) >>
    [] f = "ReqB" ->
         << Words(<<"1", "Y12", "100", "1", "D1", "4", "Y12", "100", "4", "CH9">>) >>
    [] f = "TalA" ->
         << Words(<<"3Y12-CH9-200", "1R10", "-", "CH9", "4R10-CH10-150",
                    "2Y12-B7">>) >>
    [] OTHER -> <<>>

\* textItems.join(' ')
RECURSIVE Join(_, _)
Join(items, sep) ==
  IF Len(items) = 0 THEN <<>>
  ELSE IF Len(items) = 1 THEN items[1]
  ELSE items[1] \o sep \o Join(Tail(items), sep)

\* for each page: fullText += textItems.join(' ') + '\n'
RECURSIVE FullText(_)
FullText(pages) ==
  IF Len(pages) = 0 THEN <<>>
  ELSE Join(pages[1], <<" ">>) \o <<"\n">> \o FullText(Tail(pages))

----------------------------------------------------------------------------
(* String.prototype.localeCompare(b) with no locales argument: collation   *)
(* of the host's default locale.  Marks hold only A-Z and 0-9.  Under the  *)
(* root collation digits sort before letters, letters alphabetically; the  *)
(* Czech tailoring ("cs") treats C followed by H as one letter that sorts  *)
(* between H and I.                                                        *)

Locales == {"root", "cs"}

\* rank of a letter in the alphabet, 1..26
LetterRank(c) ==
  CHOOSE r \in 1..26 :
    c = << "A", "B", "C", "D", "E", "F", "G", "H", "I", "J", "K", "L", "M",
           "N", "O", "P", "Q", "R", "S", "T", "U", "V", "W", "X", "Y", "Z" >>[r]

\* primary collation weights of a string (digits 0..9, letters 10 + 2 * rank,
\* the Czech CH one above H)
RECURSIVE CollationKey(_, _)
CollationKey(s, loc) ==
  IF Len(s) = 0 THEN <<>>
  ELSE IF loc = "cs" /\ Len(s) >= 2 /\ s[1] = "C" /\ s[2] = "H"
       THEN <<10 + 2 * LetterRank("H") + 1>> \o CollationKey(SubSeq(s, 3, Len(s)), loc)
  ELSE IF IsDigit(s[1])
       THEN <<DigitVal(s[1])>> \o CollationKey(Tail(s), loc)
  ELSE <<10 + 2 * LetterRank(s[1])>> \o CollationKey(Tail(s), loc)

\* -1, 0, 1 by the first differing weight; a proper prefix sorts first
RECURSIVE CompareKeys(_, _)
CompareKeys(a, b) ==
  IF Len(a) = 0 THEN (IF Len(b) = 0 THEN 0 ELSE -1)
  ELSE IF Len(b) = 0 THEN 1
  ELSE IF a[1] < b[1] THEN -1
  ELSE IF a[1] > b[1] THEN 1
  ELSE CompareKeys(Tail(a), Tail(b))

localeCompare(a, b, loc) == CompareKeys(CollationKey(a, loc), CollationKey(b, loc))

\* tableData.sort((a, b) => a.mark.localeCompare(b.mark)): Array.prototype.sort
\* is stable, so rows that compare equal keep their order.
RECURSIVE InsertRow(_, _, _)
InsertRow(sorted, row, loc) ==
  IF Len(sorted) = 0 THEN <<row>>
  ELSE IF localeCompare(sorted[Len(sorted)].mark, row.mark, loc) <= 0
       THEN Append(sorted, row)
  ELSE Append(InsertRow(SubSeq(sorted, 1, Len(sorted) - 1), row, loc),
              sorted[Len(sorted)])

RECURSIVE SortRows(_, _)
SortRows(rows, loc) ==
  IF Len(rows) = 0 THEN <<>>
  ELSE InsertRow(SortRows(SubSeq(rows, 1, Len(rows) - 1), loc), rows[Len(rows)], loc)

----------------------------------------------------------------------------
(* handleCompare                                                           *)

\* (mutation of GroupStep: every record overwrites the diameter of its group)
GroupStepLastWins(grouped, item) ==
  LET t == IF item.mark \in DOMAIN grouped THEN grouped[item.mark].total ELSE 0
  IN [m \in DOMAIN grouped \cup {item.mark} |->
        IF m = item.mark THEN [total |-> t + item.count, diameter |-> item.diameter]
        ELSE grouped[m]]
\* one iteration of page2Data.forEach: create the group on the first record
\* of a mark, then add the count
GroupStep(grouped, item) ==
  LET g == IF item.mark \in DOMAIN grouped
           THEN grouped
           ELSE grouped @@ (item.mark :> [total |-> 0, diameter |-> item.diameter])
  IN [g EXCEPT ![item.mark].total = @ + item.count]

\* page2Grouped after the forEach over page2Data
RECURSIVE page2Grouped(_)
page2Grouped(page2Data) ==
  IF Len(page2Data) = 0 THEN <<>>
  ELSE GroupStep(page2Grouped(SubSeq(page2Data, 1, Len(page2Data) - 1)),
                 page2Data[Len(page2Data)])

NA == <<"N", "/", "A">>

\* (mutation of RoundHalf: the half is dropped)
RoundHalfDown(tally) == tally \div 2
\* Math.round(tally / 2): Math.round rounds a half towards +Infinity
RoundHalf(tally) == (tally + 1) \div 2

\* (mutation of HalveRow: a mark without a group counts as a diameter match)
HalveRowVacuous(item, grouped, flag) ==
  LET has == item.mark \in DOMAIN grouped
      t0 == IF has THEN grouped[item.mark].total ELSE 0
      tally == IF flag THEN RoundHalf(t0) ELSE t0
  IN [mark |-> item.mark,
      required |-> item.required,
      requiredDiameter |-> item.diameter,
      tally |-> tally,
      extractedDiameter |-> IF has THEN grouped[item.mark].diameter ELSE NA,
      diff |-> tally - item.required,
      diameterMatch |-> IF has THEN grouped[item.mark].diameter = item.diameter
                        ELSE TRUE]
\* a row of tableData in App.jsx
HalveRow(item, grouped, flag) ==
  LET has == item.mark \in DOMAIN grouped
      t0 == IF has THEN grouped[item.mark].total ELSE 0
      tally == IF flag THEN RoundHalf(t0) ELSE t0
  IN [mark |-> item.mark,
      required |-> item.required,
      requiredDiameter |-> item.diameter,
      tally |-> tally,
      extractedDiameter |-> IF has THEN grouped[item.mark].diameter ELSE NA,
      diff |-> tally - item.required,
      diameterMatch |-> IF has THEN grouped[item.mark].diameter = item.diameter
                        ELSE FALSE]

\* a row of tableData in part_000
DoubleRow(item, grouped, flag, inSec) ==
  LET has == item.mark \in DOMAIN grouped
      tally == IF has THEN grouped[item.mark].total ELSE 0
      inSection == IF item.mark \in DOMAIN inSec THEN inSec[item.mark] ELSE flag
      effectiveRequired == IF inSection THEN item.required * 2 ELSE item.required
  IN [mark |-> item.mark,
      required |-> item.required,
      requiredDiameter |-> item.diameter,
      inSection |-> inSection,
      effectiveRequired |-> effectiveRequired,
      tally |-> tally,
      diff |-> tally - effectiveRequired,
      diameterMatch |-> IF has THEN grouped[item.mark].diameter = item.diameter
                        ELSE FALSE,
      extractedDiameter |-> IF has THEN grouped[item.mark].diameter ELSE NA]

\* The extractors tabulated over the texts the documents can yield
\* (each table entry is the extractor applied to that text).
AllTexts == {<<>>} \cup {FullText(Pages(f)) : f \in Slot1Files \cup Slot2Files}
Page1Table == [t \in AllTexts |-> extractPage1Data(t)]
Page2Table == [t \in AllTexts |-> extractPage2Data(t)]
Page2TableWs == [t \in AllTexts |-> extractPage2DataWs(t)]
page1Data(text) ==
  IF text \in AllTexts THEN Page1Table[text] ELSE extractPage1Data(text)
page2Data(text) ==
  IF text \in AllTexts THEN Page2Table[text] ELSE extractPage2Data(text)
page2DataWs(text) ==
  IF text \in AllTexts THEN Page2TableWs[text] ELSE extractPage2DataWs(text)

\* tableData of App.jsx, sorted
HalveTable(t1, t2, flag, loc) ==
  LET recs == page1Data(t1)
      grouped == page2Grouped(page2Data(t2))
  IN SortRows([n \in 1..Len(recs) |-> HalveRow(recs[n], grouped, flag)], loc)

\* tableData of part_000, sorted
DoubleTable(t1, t2, flag, inSec, loc) ==
  LET recs == page1Data(t1)
      grouped == page2Grouped(page2DataWs(t2))
  IN SortRows([n \in 1..Len(recs) |-> DoubleRow(recs[n], grouped, flag, inSec)], loc)

RowMarks(rows) == {rows[n].mark : n \in 1..Len(rows)}

\* (mutation of SeedInSection: every mark of the table takes the flag)
SeedInSectionOverwrite(prev, rows, flag) ==
  [m \in DOMAIN prev \cup RowMarks(rows) |->
     IF m \in RowMarks(rows) THEN flag ELSE prev[m]]
\* setInSectionRows(prev => ...): seed the marks that have no entry yet
SeedInSection(prev, rows, flag) ==
  [m \in DOMAIN prev \cup RowMarks(rows) |->
     IF m \in DOMAIN prev THEN prev[m] ELSE flag]

----------------------------------------------------------------------------
(* State after construction, and the handlers.                             *)

Variants == {"halve", "double"}

NoRows == <<>>
NoFlags == <<>>

AppInit ==
  /\ variant \in Variants
  /\ locale \in Locales
  /\ file1 = NoFile
  /\ file2 = NoFile
  /\ text1 = <<>>
  /\ text2 = <<>>
  /\ pending = << <<>>, <<>> >>
  /\ results = NoRows
  /\ sectionAndLayout = FALSE
  /\ ignoredRows = NoFlags
  /\ inSectionRows = NoFlags
  /\ clicks = 0
  /\ overlap = MaxInFlight

Init ==
  /\ AppInit
  /\ arg = <<>>
  /\ ret = <<>>

\* the text a finished handleUpload hands to setText
UploadedText(f) == IF Decodes(f) THEN FullText(Pages(f)) ELSE <<>>

RemoveAt(seq, i) == SubSeq(seq, 1, i - 1) \o SubSeq(seq, i + 1, Len(seq))

\* onChange of the first file input: setFile1(file); handleUpload(file, setText1)
\* up to its first await.  Cancelling the dialog gives no file: early return.
SelectFile1(f) ==
  /\ file1' = f
  /\ IF f = NoFile
     THEN pending' = pending
     ELSE /\ Len(pending[1]) + Len(pending[2]) < overlap
          /\ pending' = [pending EXCEPT ![1] = Append(@, f)]
  /\ UNCHANGED <<variant, locale, overlap, file2, text1, text2, results, sectionAndLayout,
                 ignoredRows, inSectionRows, clicks, arg, ret>>

\* onChange of the second file input
SelectFile2(f) ==
  /\ file2' = f
  /\ IF f = NoFile
     THEN pending' = pending
     ELSE /\ Len(pending[1]) + Len(pending[2]) < overlap
          /\ pending' = [pending EXCEPT ![2] = Append(@, f)]
  /\ UNCHANGED <<variant, locale, overlap, file1, text1, text2, results, sectionAndLayout,
                 ignoredRows, inSectionRows, clicks, arg, ret>>

\* a handleUpload(file, setText1) in flight reaches setText(fullText), or
\* setText('') in its catch
FinishUpload1(i) ==
  /\ i \in 1..Len(pending[1])
  /\ text1' = UploadedText(pending[1][i])
  /\ pending' = [pending EXCEPT ![1] = RemoveAt(@, i)]
  /\ UNCHANGED <<variant, locale, overlap, file1, file2, text2, results, sectionAndLayout,
                 ignoredRows, inSectionRows, clicks, arg, ret>>

\* a handleUpload(file, setText2) in flight completes
FinishUpload2(i) ==
  /\ i \in 1..Len(pending[2])
  /\ text2' = UploadedText(pending[2][i])
  /\ pending' = [pending EXCEPT ![2] = RemoveAt(@, i)]
  /\ UNCHANGED <<variant, locale, overlap, file1, file2, text1, results, sectionAndLayout,
                 ignoredRows, inSectionRows, clicks, arg, ret>>

\* the checkbox: setSectionAndLayout(e.target.checked)
setSectionAndLayout ==
  /\ sectionAndLayout' = ~sectionAndLayout
  /\ UNCHANGED <<variant, locale, overlap, file1, file2, text1, text2, pending, results,
                 ignoredRows, inSectionRows, clicks, arg, ret>>

\* (mutation of CompareEnabled: the button is never disabled)
CompareAlways == TRUE
\* the Compare button is disabled while either text is empty
CompareEnabled == text1 # <<>> /\ text2 # <<>>

\* handleCompare of App.jsx
handleCompareHalve ==
  /\ variant = "halve"
  /\ CompareEnabled
  /\ results' = HalveTable(text1, text2, sectionAndLayout, locale)
  /\ UNCHANGED <<variant, locale, overlap, file1, file2, text1, text2, pending,
                 sectionAndLayout, ignoredRows, inSectionRows, clicks, arg, ret>>

\* handleCompare of part_000
handleCompareDouble ==
  /\ variant = "double"
  /\ CompareEnabled
  /\ LET tableData == DoubleTable(text1, text2, sectionAndLayout, inSectionRows, locale)
     IN /\ results' = tableData
        /\ inSectionRows' = SeedInSection(inSectionRows, tableData, sectionAndLayout)
  /\ UNCHANGED <<variant, locale, overlap, file1, file2, text1, text2, pending,
                 sectionAndLayout, ignoredRows, clicks, arg, ret>>

\* !prev[mark]: a mark without an entry reads as undefined, which is falsy
Flipped(prev, mark) == IF mark \in DOMAIN prev THEN ~prev[mark] ELSE TRUE

\* (mutation of WithEntry: the spread of prev is forgotten)
WithEntryAlone(prev, mark, value) == [m \in {mark} |-> value]
\* { ...prev, [mark]: value }
WithEntry(prev, mark, value) ==
  [m \in DOMAIN prev \cup {mark} |-> IF m = mark THEN value ELSE prev[m]]

\* toggleIgnore(row.mark), from the Ignore checkbox of a row
toggleIgnore(mark) ==
  /\ mark \in RowMarks(results)
  /\ clicks < MaxClicks
  /\ clicks' = clicks + 1
  /\ ignoredRows' = WithEntry(ignoredRows, mark, Flipped(ignoredRows, mark))
  /\ UNCHANGED <<variant, locale, overlap, file1, file2, text1, text2, pending, results,
                 sectionAndLayout, inSectionRows, arg, ret>>

\* (mutation of ToggledRows: diff is not recomputed)
ToggledRowsStaleDiff(rows, mark, newVal) ==
  [n \in 1..Len(rows) |->
     IF rows[n].mark = mark
     THEN [rows[n] EXCEPT
             !.inSection = newVal,
             !.effectiveRequired = IF newVal THEN rows[n].required * 2
                                   ELSE rows[n].required]
     ELSE rows[n]]
\* updatedResults of toggleInSection
ToggledRows(rows, mark, newVal) ==
  [n \in 1..Len(rows) |->
     IF rows[n].mark = mark
     THEN [rows[n] EXCEPT
             !.inSection = newVal,
             !.effectiveRequired = IF newVal THEN rows[n].required * 2
                                   ELSE rows[n].required,
             !.diff = rows[n].tally - (IF newVal THEN rows[n].required * 2
                                       ELSE rows[n].required)]
     ELSE rows[n]]

\* toggleInSection(row.mark), from the Section View checkbox of a row (part_000)
toggleInSection(mark) ==
  /\ variant = "double"
  /\ mark \in RowMarks(results)
  /\ clicks < MaxClicks
  /\ clicks' = clicks + 1
  /\ LET newVal == Flipped(inSectionRows, mark)
     IN /\ results' = ToggledRows(results, mark, newVal)
        /\ inSectionRows' = WithEntry(inSectionRows, mark, newVal)
  /\ UNCHANGED <<variant, locale, overlap, file1, file2, text1, text2, pending,
                 sectionAndLayout, ignoredRows, arg, ret>>

\* the marks a row checkbox can carry
AllMarks == {Chars("CH9"), Chars("CH10"), Chars("D1")}

Next ==
  \/ \E f \in Slot1Files : SelectFile1(f)
  \/ \E f \in Slot2Files : SelectFile2(f)
  \/ \E i \in 1..MaxInFlight : FinishUpload1(i)
  \/ \E i \in 1..MaxInFlight : FinishUpload2(i)
  \/ setSectionAndLayout
  \/ handleCompareHalve
  \/ handleCompareDouble
  \/ \E m \in AllMarks : toggleIgnore(m)
  \/ \E m \in AllMarks : toggleInSection(m)

Spec == Init /\ [][Next]_vars

----------------------------------------------------------------------------
(* The mismatch report rendered from the state.                            *)

\* (mutation of MismatchedMarks: the two mismatch tests joined by "and")
MismatchedMarksBoth(rows, ignored) ==
  LET keep(row) == (row.diff # 0 /\ ~row.diameterMatch)
                   /\ ~(row.mark \in DOMAIN ignored /\ ignored[row.mark])
      F[n \in 0..Len(rows)] ==
        IF n = 0 THEN <<>>
        ELSE IF keep(rows[n]) THEN Append(F[n - 1], rows[n].mark) ELSE F[n - 1]
  IN F[Len(rows)]
\* results.filter(...).map(row => row.mark)
MismatchedMarks(rows, ignored) ==
  LET keep(row) == (row.diff # 0 \/ ~row.diameterMatch)
                   /\ ~(row.mark \in DOMAIN ignored /\ ignored[row.mark])
      F[n \in 0..Len(rows)] ==
        IF n = 0 THEN <<>>
        ELSE IF keep(rows[n]) THEN Append(F[n - 1], rows[n].mark) ELSE F[n - 1]
  IN F[Len(rows)]

\* .join('\n')
mismatchedBars == Join(MismatchedMarks(results, ignoredRows), <<"\n">>)

\* {mismatchedBars || "None"}: the empty string is falsy
Report == IF mismatchedBars = <<>> THEN <<"N", "o", "n", "e">> ELSE mismatchedBars

----------------------------------------------------------------------------
(* The grouping step of handleCompare run on its own over every short      *)
(* sequence of tally records.                                              *)

MaxRecords == 3
MaxCount == 2

\* the app left in its initial state while a function is run on its own
AppIdle ==
  /\ AppInit
  /\ variant = "halve"
  /\ locale = "root"

Unset == [done |-> FALSE, value |-> <<>>]

SeqsUpTo(S, n) == UNION {[1..k -> S] : k \in 0..n}

SampleTallyRecords ==
  [count : 0..MaxCount,
   diameter : {Chars("Y12"), Chars("R10")},
   mark : {Chars("CH9"), Chars("D1")}]

GroupInit ==
  /\ AppIdle
  /\ arg \in SeqsUpTo(SampleTallyRecords, MaxRecords)
  /\ ret = Unset

RunGrouping ==
  /\ ~ret.done
  /\ ret' = [done |-> TRUE, value |-> page2Grouped(arg)]
  /\ UNCHANGED <<variant, locale, overlap, file1, file2, text1, text2, pending, results,
                 sectionAndLayout, ignoredRows, inSectionRows, clicks, arg>>

GroupNext == RunGrouping

SpecGroup == GroupInit /\ [][GroupNext]_vars

----------------------------------------------------------------------------
(* The extractors run on their own, over texts put together from pieces.   *)

MaxPieces == 4

\* a required line, a tally token, a tally token written with blanks, and
\* what can stand between or against them
Pieces ==
  { <<"6", " ", "Y", "1", " ", "2", " ", "3", " ", "A", "1">>,
    <<"1", "6", "Y", "1", "-", "A", "1">>,
    <<"1", " ", "R", "5", " ", "-", " ", "C", "L", "3">>,
    <<" ">>,
    <<"-", "2", "0">>,
    <<"x">>,
    <<"7">>,
    <<"-">> }

RECURSIVE Concat(_)
Concat(ps) == IF Len(ps) = 0 THEN <<>> ELSE Head(ps) \o Concat(Tail(ps))

SampleTexts == {Concat(ps) : ps \in SeqsUpTo(Pieces, MaxPieces)}

NotRun == [done |-> FALSE, fn |-> "none", value |-> <<>>]

ExtractInit ==
  /\ AppIdle
  /\ arg \in SampleTexts
  /\ ret = NotRun

RunExtractPage1 ==
  /\ ~ret.done
  /\ ret' = [done |-> TRUE, fn |-> "extractPage1Data", value |-> extractPage1Data(arg)]
  /\ UNCHANGED <<variant, locale, overlap, file1, file2, text1, text2, pending, results,
                 sectionAndLayout, ignoredRows, inSectionRows, clicks, arg>>

RunExtractPage2 ==
  /\ ~ret.done
  /\ ret' = [done |-> TRUE, fn |-> "extractPage2Data", value |-> extractPage2Data(arg)]
  /\ UNCHANGED <<variant, locale, overlap, file1, file2, text1, text2, pending, results,
                 sectionAndLayout, ignoredRows, inSectionRows, clicks, arg>>

RunExtractPage2Ws ==
  /\ ~ret.done
  /\ ret' = [done |-> TRUE, fn |-> "extractPage2DataWs", value |-> extractPage2DataWs(arg)]
  /\ UNCHANGED <<variant, locale, overlap, file1, file2, text1, text2, pending, results,
                 sectionAndLayout, ignoredRows, inSectionRows, clicks, arg>>

ExtractNext ==
  \/ RunExtractPage1
  \/ RunExtractPage2
  \/ RunExtractPage2Ws

SpecExtract == ExtractInit /\ [][ExtractNext]_vars

----------------------------------------------------------------------------
(* toggleInSection run on its own: the call applied to every store of      *)
(* section-view values over the marks, those without an entry for the mark *)
(* included, beside a table computed from that store.                      *)

\* the stores of section-view values: an entry for some of the marks
InSectionStores == UNION {[S -> BOOLEAN] : S \in SUBSET AllMarks}

ToggleInit ==
  /\ variant = "double"
  /\ locale = "root"
  /\ file1 = NoFile
  /\ file2 = NoFile
  /\ text1 \in {<<>>, FullText(Pages("ReqA")), FullText(Pages("ReqB"))}
  /\ text2 = FullText(Pages("TalA"))
  /\ pending = << <<>>, <<>> >>
  /\ sectionAndLayout \in BOOLEAN
  /\ inSectionRows \in InSectionStores
  /\ results = DoubleTable(text1, text2, sectionAndLayout, inSectionRows, locale)
  /\ ignoredRows = NoFlags
  /\ clicks = 0
  /\ overlap = MaxInFlight
  /\ arg = <<>>
  /\ ret = <<>>

\* the call toggleInSection(mark): the updater handed to setInSectionRows,
\* with its setResults
CallToggleInSection(mark) ==
  /\ variant = "double"
  /\ LET newVal == Flipped(inSectionRows, mark)
     IN /\ results' = ToggledRows(results, mark, newVal)
        /\ inSectionRows' = WithEntry(inSectionRows, mark, newVal)
  /\ UNCHANGED <<variant, locale, overlap, file1, file2, text1, text2, pending,
                 sectionAndLayout, ignoredRows, clicks, arg, ret>>

ToggleNext == \E m \in AllMarks : CallToggleInSection(m)

SpecToggle == ToggleInit /\ [][ToggleNext]_vars

----------------------------------------------------------------------------
(* The uploads on their own: selections that follow one another before the *)
(* extractions started earlier have ended.                                 *)

MaxOverlap == 2

UploadInit ==
  /\ variant = "halve"
  /\ locale = "root"
  /\ file1 = NoFile
  /\ file2 = NoFile
  /\ text1 = <<>>
  /\ text2 = <<>>
  /\ pending = << <<>>, <<>> >>
  /\ results = NoRows
  /\ sectionAndLayout = FALSE
  /\ ignoredRows = NoFlags
  /\ inSectionRows = NoFlags
  /\ clicks = 0
  /\ overlap = MaxOverlap
  /\ arg = <<>>
  /\ ret = <<>>

UploadNext ==
  \/ \E f \in Slot1Files : SelectFile1(f)
  \/ \E f \in Slot2Files : SelectFile2(f)
  \/ \E i \in 1..MaxOverlap : FinishUpload1(i)
  \/ \E i \in 1..MaxOverlap : FinishUpload2(i)

SpecUpload == UploadInit /\ [][UploadNext]_vars

----------------------------------------------------------------------------
(* Properties.                                                             *)

handleCompare == handleCompareHalve \/ handleCompareDouble

\* the tally records handleCompare reads in the running build
TallyRecords(text) ==
  IF variant = "halve" THEN page2Data(text) ELSE page2DataWs(text)

SeqMarks(recs) == {recs[n].mark : n \in 1..Len(recs)}

DistinctMarks(recs) ==
  \A i, j \in 1..Len(recs) : i # j => recs[i].mark # recs[j].mark

\* C1 as stated: after every compare the marks of the rows are pairwise
\* distinct (also when the required list repeats a mark), the set of row
\* marks is the set of marks of the required list, and no tally-only mark
\* is a row.
C1_UniqueMarksAsStated ==
  [][handleCompare =>
       LET req == page1Data(text1)
       IN /\ DistinctMarks(results')
          /\ SeqMarks(results') = SeqMarks(req)
          /\ \A m \in SeqMarks(TallyRecords(text2)) \ SeqMarks(req) :
               m \notin SeqMarks(results')]_vars

\* the report split at its line breaks
RECURSIVE SplitLines(_)
SplitLines(s) ==
  IF \E k \in 1..Len(s) : s[k] = "\n"
  THEN LET k == CHOOSE x \in 1..Len(s) :
                  s[x] = "\n" /\ \A y \in 1..(x - 1) : s[y] # "\n"
       IN <<SubSeq(s, 1, k - 1)>> \o SplitLines(SubSeq(s, k + 1, Len(s)))
  ELSE <<s>>

IsIgnored(m) == m \in DOMAIN ignoredRows /\ ignoredRows[m] = TRUE

\* indices of the rows that are mismatched and not ignored
Qualifying ==
  {n \in 1..Len(results) :
     (results[n].diff # 0 \/ results[n].diameterMatch = FALSE)
     /\ ~IsIgnored(results[n].mark)}

Kth(S, k) == CHOOSE x \in S : Cardinality({y \in S : y < x}) = k - 1

NoneText == <<"N", "o", "n", "e">>

\* C2: in every reachable state the report lists exactly the marks of the
\* rows with (diff # 0 or diameterMatch = false) whose mark is not ignored,
\* in the order of the rows, and is the text "None" when no row qualifies.
C2_ReportIffMismatch ==
  IF Qualifying = {} THEN Report = NoneText
  ELSE LET lines == SplitLines(Report)
       IN /\ Len(lines) = Cardinality(Qualifying)
          /\ \A k \in 1..Len(lines) : lines[k] = results[Kth(Qualifying, k)].mark
          /\ \A m \in SeqMarks(results) :
               (\E k \in 1..Len(lines) : lines[k] = m)
                 <=> (\E n \in Qualifying : results[n].mark = m)

\* a table with a listed row, a clean row and an ignored mismatched row
C2_Witness ==
  /\ Qualifying # {}
  /\ \E n \in 1..Len(results) : results[n].diff = 0 /\ results[n].diameterMatch
  /\ \E n \in 1..Len(results) :
       (results[n].diff # 0 \/ ~results[n].diameterMatch)
       /\ IsIgnored(results[n].mark)

\* the position of the first record of a mark
FirstIndex(recs, m) ==
  CHOOSE n \in 1..Len(recs) :
    recs[n].mark = m /\ \A k \in 1..(n - 1) : recs[k].mark # m

\* the sum of the counts of the records of a mark
RECURSIVE SumAt(_, _)
SumAt(recs, S) ==
  IF S = {} THEN 0
  ELSE LET n == CHOOSE x \in S : TRUE
       IN recs[n].count + SumAt(recs, S \ {n})
SumCounts(recs, m) == SumAt(recs, {n \in 1..Len(recs) : recs[n].mark = m})

\* C3: for every sequence of tally records the grouping holds exactly one
\* group per mark of the sequence; its total is the sum of the counts of
\* all records of the mark (those with count 0 included) and its diameter
\* is the diameter of the first record of the mark.
C3_GroupTotalsFirstDiameter ==
  ret.done =>
    /\ DOMAIN ret.value = SeqMarks(arg)
    /\ \A m \in SeqMarks(arg) :
         /\ ret.value[m].total = SumCounts(arg, m)
         /\ ret.value[m].diameter = arg[FirstIndex(arg, m)].diameter

\* grouped: a mark whose first record has count 0 and whose later record
\* carries another diameter and a count
C3_Witness ==
  /\ ret.done
  /\ \E i, j \in 1..Len(arg) :
       /\ i < j
       /\ i = FirstIndex(arg, arg[i].mark)
       /\ arg[i].mark = arg[j].mark
       /\ arg[i].diameter # arg[j].diameter
       /\ arg[i].count = 0
       /\ arg[j].count > 0
       /\ ret.value[arg[i].mark].diameter = arg[i].diameter

\* C4: a row of compare whose mark has no tally group has tally 0,
\* extractedDiameter "N/A", diameterMatch false and diff = 0 - effective
\* required, whatever the section-and-layout flag; and diameterMatch is
\* true only for a mark that has a group whose diameter is the required one.
C4_MissingCounterpart ==
  [][handleCompare =>
       \A n \in 1..Len(results') :
         LET row == results'[n]
             recs == TallyRecords(text2)
             has == row.mark \in SeqMarks(recs)
             eff == IF variant = "double" THEN row.effectiveRequired
                    ELSE row.required
         IN /\ ~has => /\ row.tally = 0
                       /\ row.extractedDiameter = NA
                       /\ row.diameterMatch = FALSE
                       /\ row.diff = 0 - eff
            /\ row.diameterMatch = TRUE =>
                 /\ has
                 /\ recs[FirstIndex(recs, row.mark)].diameter = row.requiredDiameter]_vars

\* a table of the halving build computed with the flag set (the total 3 of
\* CH9 is halved to 2) that holds a row without a tally group
C4_Witness ==
  /\ variant = "halve"
  /\ \E n \in 1..Len(results) :
       results[n].extractedDiameter = NA /\ results[n].diff = 0 - results[n].required
  /\ \E n \in 1..Len(results) :
       results[n].mark = Chars("CH9") /\ results[n].tally = 2

Mismatched(rows, m) ==
  \E n \in 1..Len(rows) :
    rows[n].mark = m /\ (rows[n].diff # 0 \/ rows[n].diameterMatch = FALSE)

\* whether the report text lists mark m
Listed(report, m) ==
  report # NoneText /\ \E k \in 1..Len(SplitLines(report)) : SplitLines(report)[k] = m

Ignores(flags, m) == m \in DOMAIN flags /\ flags[m] = TRUE

\* C5: toggleIgnore(m) flips the ignore flag of m alone (no entry reads as
\* not ignored) and leaves the rows and the entries of all other marks as
\* they are; a mismatched m is listed in the report exactly when it is not
\* ignored, the listing of every other mark is unchanged, and the report is
\* "None" once every mismatched mark is ignored.
C5_ToggleIgnoreFrame ==
  [][\A m \in AllMarks :
       toggleIgnore(m) =>
         /\ Ignores(ignoredRows', m) = ~Ignores(ignoredRows, m)
         /\ \A o \in AllMarks \ {m} :
              /\ o \in DOMAIN ignoredRows' <=> o \in DOMAIN ignoredRows
              /\ o \in DOMAIN ignoredRows => ignoredRows'[o] = ignoredRows[o]
         /\ results' = results
         /\ Mismatched(results, m) => (Listed(Report', m) <=> ~Ignores(ignoredRows', m))
         /\ \A o \in SeqMarks(results) \ {m} : Listed(Report', o) <=> Listed(Report, o)
         /\ (\A o \in SeqMarks(results) :
               Mismatched(results, o) => Ignores(ignoredRows', o))
              => Report' = NoneText]_vars

\* a mismatched mark ignored and then restored: its entry reads false and
\* the report lists it again
C5_Witness ==
  \E m \in SeqMarks(results) :
    /\ m \in DOMAIN ignoredRows
    /\ ignoredRows[m] = FALSE
    /\ Mismatched(results, m)
    /\ Listed(Report, m)

\* the rows of mark m all carry the section-view value v
RowsInSection(rows, m, v) ==
  \A n \in 1..Len(rows) : rows[n].mark = m => rows[n].inSection = v

\* C6: in the doubling build a compare gives a mark that is a row and has no
\* stored section-view value the value of the global flag, and gives no
\* entry to any other mark; a stored value is never removed and changes
\* only in a toggleInSection step on that mark (no compare and no change of
\* the global flag disturbs it); and the rows of a mark always carry the
\* stored value of the mark.
C6_SeedOnceThenToggleOnly ==
  [][variant = "double" =>
       \A m \in AllMarks :
         /\ m \notin DOMAIN inSectionRows =>
              IF handleCompareDouble /\ m \in RowMarks(results')
              THEN /\ m \in DOMAIN inSectionRows'
                   /\ inSectionRows'[m] = sectionAndLayout
              ELSE m \notin DOMAIN inSectionRows'
         /\ m \in DOMAIN inSectionRows =>
              /\ m \in DOMAIN inSectionRows'
              /\ inSectionRows'[m] # inSectionRows[m] => toggleInSection(m)
              /\ RowsInSection(results, m, inSectionRows[m])
         /\ m \in DOMAIN inSectionRows' =>
              RowsInSection(results', m, inSectionRows'[m])
         /\ m \in RowMarks(results') => m \in DOMAIN inSectionRows']_vars

\* no checkbox of a row was clicked, all three marks were seeded, CH9 at an
\* earlier compare than D1 and under another flag value: the table on
\* display was computed by a later compare under the flag value CH9 does
\* not carry
C6_Witness ==
  /\ variant = "double"
  /\ clicks = 0
  /\ DOMAIN inSectionRows = AllMarks
  /\ inSectionRows[Chars("CH9")] # inSectionRows[Chars("D1")]
  /\ inSectionRows[Chars("D1")] = sectionAndLayout
  /\ Chars("D1") \in RowMarks(results)
  /\ \E n \in 1..Len(results) :
       results[n].mark = Chars("CH9") /\ results[n].inSection # sectionAndLayout

\* t / 2 rounded half-up: an odd t gives (t + 1) / 2
HalfUp(t) == IF t % 2 = 0 THEN t \div 2 ELSE (t + 1) \div 2

\* C7: a compare of the halving build gives every row the tally
\* total / 2 rounded half-up when the flag is set (28 gives 14, 3 gives 2)
\* and the total itself when it is not, the total being the sum of the
\* counts of the tally records of the row's mark, and diff = tally - required;
\* there is one row for each required record.
C7_HalveEveryRow ==
  [][handleCompareHalve =>
       /\ Len(results') = Len(page1Data(text1))
       /\ \A n \in 1..Len(results') :
            LET row == results'[n]
                total == SumCounts(TallyRecords(text2), row.mark)
            IN /\ row.tally = IF sectionAndLayout THEN HalfUp(total) ELSE total
               /\ row.diff = row.tally - row.required
       /\ RoundHalf(28) = 14
       /\ RoundHalf(3) = 2]_vars

\* a table computed with the flag set: the odd total 3 of CH9 gives 2, the
\* even total 4 of CH10 gives 2
C7_Witness ==
  /\ variant = "halve"
  /\ sectionAndLayout
  /\ \E n \in 1..Len(results) :
       /\ results[n].mark = Chars("CH9")
       /\ results[n].tally = 2
       /\ results[n].diff = 2 - results[n].required
  /\ \E n \in 1..Len(results) :
       results[n].mark = Chars("CH10") /\ results[n].tally = 2

\* UTF-16 code units of a mark (digits 48..57, letters 65..90)
CodeUnits(s) ==
  [n \in 1..Len(s) |->
     IF IsDigit(s[n]) THEN 48 + DigitVal(s[n]) ELSE 64 + LetterRank(s[n])]

\* ordinal comparison: code unit by code unit, a proper prefix first
OrdinalCompare(a, b) == CompareKeys(CodeUnits(a), CodeUnits(b))

\* C8: in every state (after every compare and after every later
\* toggleIgnore or toggleInSection) the rows are in non-decreasing order of
\* mark under ordinal comparison, "CH10" before "CH9" as "A10" before "A9".
C8_RowsInOrdinalOrder ==
  /\ OrdinalCompare(Chars("A10"), Chars("A9")) < 0
  /\ \A n \in 1..(Len(results) - 1) :
       OrdinalCompare(results[n].mark, results[n + 1].mark) <= 0

\* a side whose document failed to decode: its upload has finished and
\* left the empty text
FailedSide1 == file1 = "Bad" /\ pending[1] = <<>> /\ text1 = <<>>
FailedSide2 == file2 = "Bad" /\ pending[2] = <<>> /\ text2 = <<>>

\* C9 as stated: after a failed decode the text of the side is empty and a
\* compare can be requested; it yields the empty table when the required
\* side is empty and otherwise a table whose rows all have tally 0 and no
\* diameter found.
C9_CompareAfterFailureAsStated ==
  (FailedSide1 \/ FailedSide2) =>
    ENABLED (/\ handleCompare
             /\ text1 = <<>> => results' = <<>>
             /\ text1 # <<>> =>
                  /\ Len(results') = Len(page1Data(text1))
                  /\ \A n \in 1..Len(results') :
                       /\ results'[n].tally = 0
                       /\ results'[n].extractedDiameter = NA)

\* every row has tally 0 and no diameter found
NothingTallied(rows) ==
  \A n \in 1..Len(rows) : rows[n].tally = 0 /\ rows[n].extractedDiameter = NA

\* what the compare of either build computes when a text is empty: no row
\* from an empty required text, and from an empty tally text one row for
\* each required record, with tally 0 and no diameter found
EmptyTextTables ==
  \A t \in AllTexts, flag \in BOOLEAN, loc \in Locales :
    /\ HalveTable(<<>>, t, flag, loc) = <<>>
    /\ DoubleTable(<<>>, t, flag, NoFlags, loc) = <<>>
    /\ Len(HalveTable(t, <<>>, flag, loc)) = Len(page1Data(t))
    /\ Len(DoubleTable(t, <<>>, flag, NoFlags, loc)) = Len(page1Data(t))
    /\ NothingTallied(HalveTable(t, <<>>, flag, loc))
    /\ NothingTallied(DoubleTable(t, <<>>, flag, NoFlags, loc))

\* C9 as amended: an upload that fails to decode sets the text of its side
\* to the empty text.  The table computed from an empty required text is
\* empty and the one computed from an empty tally text has one row per
\* required record, each with tally 0 and no diameter found; but from a
\* state in which either text is empty no step is a compare, and the rows
\* stay as they are (a toggleInSection apart, which rewrites the section
\* view of the rows of one mark).
C9_FailureEmptiesTextCompareOff ==
  [][/\ EmptyTextTables
     /\ \A i \in 1..Len(pending[1]) :
          FinishUpload1(i) /\ ~Decodes(pending[1][i]) => text1' = <<>>
     /\ \A i \in 1..Len(pending[2]) :
          FinishUpload2(i) /\ ~Decodes(pending[2][i]) => text2' = <<>>
     /\ (text1 = <<>> \/ text2 = <<>>) =>
          /\ ~handleCompare
          /\ ~ENABLED handleCompare
          /\ \/ results' = results
             \/ \E m \in AllMarks :
                  toggleInSection(m) /\ results' = ToggledRows(results, m, inSectionRows'[m])]_vars

\* the required document failed to decode after a comparison was made: the
\* rows of that comparison are still on display
C9_Witness ==
  /\ FailedSide1
  /\ text2 # <<>>
  /\ results # <<>>

\* the kind of a character: digit, upper-case letter, other word character,
\* white space, hyphen, anything else
KindOf(c) ==
  IF c \in Digits THEN "d"
  ELSE IF c \in Upper THEN "U"
  ELSE IF c \in Lower \cup {"_"} THEN "w"
  ELSE IF c \in Spaces THEN "s"
  ELSE IF c = "-" THEN "-"
  ELSE "p"

\* the text cut into tokens and separators: maximal runs of one kind
RECURSIVE Tokens(_)
Tokens(text) ==
  IF Len(text) = 0 THEN <<>>
  ELSE LET k == KindOf(text[1])
           n == CHOOSE j \in 1..Len(text) :
                  /\ \A i \in 1..j : KindOf(text[i]) = k
                  /\ j = Len(text) \/ KindOf(text[j + 1]) # k
       IN <<[kind |-> k, str |-> SubSeq(text, 1, n)]>>
          \o Tokens(SubSeq(text, n + 1, Len(text)))

\* the grammars, token by token: "d" an integer, "U1" one letter, "U3" one
\* to three letters, "-" one hyphen, "s" white space, "s?" white space or
\* nothing
Page1Grammar == <<"d", "s", "U1", "d", "s", "d", "s", "d", "s", "U3", "d">>
Page2Grammar == <<"d", "U1", "d", "-", "U3", "d">>
Page2Suffix == <<"-", "d">>
Page2GrammarWs == <<"d", "s?", "U1", "d", "s?", "-", "s?", "U3", "d">>
Page2SuffixWs == <<"-", "s?", "d">>

TokenFits(tok, shape) ==
  CASE shape = "d" -> tok.kind = "d"
    [] shape = "s" -> tok.kind = "s"
    [] shape = "-" -> tok.kind = "-" /\ Len(tok.str) = 1
    [] shape = "U1" -> tok.kind = "U" /\ Len(tok.str) = 1
    [] shape = "U3" -> tok.kind = "U" /\ Len(tok.str) <= 3

\* the index after the tokens that fit shapes k.. from token i on, 0 if
\* they do not fit
RECURSIVE Fit(_, _, _, _)
Fit(toks, i, shapes, k) ==
  IF k > Len(shapes) THEN i
  ELSE IF shapes[k] = "s?"
       THEN Fit(toks, IF i <= Len(toks) /\ toks[i].kind = "s" THEN i + 1 ELSE i,
                shapes, k + 1)
  ELSE IF i <= Len(toks) /\ TokenFits(toks[i], shapes[k])
       THEN Fit(toks, i + 1, shapes, k + 1)
  ELSE 0

\* no word character on the far side of the edge before token i
EdgeBefore(toks, i) == i = 1 \/ toks[i - 1].kind \notin {"d", "U", "w"}
EdgeAfter(toks, e) == e > Len(toks) \/ toks[e].kind \notin {"d", "U", "w"}

\* the index after the span that starts with token i (the suffix taken
\* when it fits and ends at an edge), 0 if no span starts there
SpanEnd(toks, i, grammar, suffix) ==
  LET core == IF EdgeBefore(toks, i) THEN Fit(toks, i, grammar, 1) ELSE 0
      long == IF core = 0 \/ Len(suffix) = 0 THEN 0 ELSE Fit(toks, core, suffix, 1)
  IN IF core = 0 THEN 0
     ELSE IF long # 0 /\ EdgeAfter(toks, long) THEN long
     ELSE IF EdgeAfter(toks, core) THEN core
     ELSE 0

\* the value of a decimal numeral
NumberOf(str) ==
  LET digit(c) == CHOOSE v \in 0..9 :
                    c = <<"0", "1", "2", "3", "4", "5", "6", "7", "8", "9">>[v + 1]
      V[n \in 0..Len(str)] == IF n = 0 THEN 0 ELSE 10 * V[n - 1] + digit(str[n])
  IN V[Len(str)]

\* the fields of the span that starts with token i: the first integer, the
\* first letter token with its integer, the letter token of the mark with
\* its integer
FieldsAt(toks, i, grammar) ==
  LET e == Fit(toks, i, grammar, 1)
      us == {u \in i..(e - 1) : toks[u].kind = "U"}
      u1 == CHOOSE u \in us : \A v \in us : u <= v
      u2 == CHOOSE u \in us : \A v \in us : u >= v
  IN [number |-> NumberOf(toks[i].str),
      diameter |-> toks[u1].str \o toks[u1 + 1].str,
      mark |-> toks[u2].str \o toks[u2 + 1].str]

\* the spans from token i on, left to right, none overlapping another
RECURSIVE Spans(_, _, _, _)
Spans(toks, i, grammar, suffix) ==
  IF i > Len(toks) THEN <<>>
  ELSE LET e == SpanEnd(toks, i, grammar, suffix)
       IN IF e = 0 THEN Spans(toks, i + 1, grammar, suffix)
          ELSE <<FieldsAt(toks, i, grammar)>> \o Spans(toks, e, grammar, suffix)

RequiredOf(fs) ==
  [n \in 1..Len(fs) |->
     [required |-> fs[n].number, diameter |-> fs[n].diameter, mark |-> fs[n].mark]]
TallyOf(fs) ==
  [n \in 1..Len(fs) |->
     [count |-> fs[n].number, diameter |-> fs[n].diameter, mark |-> fs[n].mark]]

\* C10: for every text each extractor returns one record for each span of
\* tokens that matches its grammar, the spans taken left to right and none
\* overlapping another, with the first integer, the diameter token and the
\* mark token as fields (interior integers and the "-integer" suffix
\* dropped); tokens outside a span give no record, and the empty text gives
\* the empty sequence.
C10_OneRecordPerSpan ==
  ret.done =>
    /\ ret.fn = "extractPage1Data" =>
         ret.value = RequiredOf(Spans(Tokens(arg), 1, Page1Grammar, <<>>))
    /\ ret.fn = "extractPage2Data" =>
         ret.value = TallyOf(Spans(Tokens(arg), 1, Page2Grammar, Page2Suffix))
    /\ ret.fn = "extractPage2DataWs" =>
         ret.value = TallyOf(Spans(Tokens(arg), 1, Page2GrammarWs, Page2SuffixWs))
    /\ arg = <<>> => ret.value = <<>>

\* extractPage2Data has returned two records with different counts from a
\* text in which a "-integer" directly precedes a second token
C10_Witness ==
  /\ ret.done
  /\ ret.fn = "extractPage2Data"
  /\ Len(ret.value) = 2
  /\ ret.value[1].count # ret.value[2].count
  /\ ret.value[1].mark = ret.value[2].mark

\* the section-view value in effect for mark m: the stored value, or the
\* global flag when the store has no entry for m
EffectiveInSection(store, m, global) ==
  IF m \in DOMAIN store THEN store[m] ELSE global

RowAgrees(row, store) ==
  /\ row.mark \in DOMAIN store
  /\ row.inSection = store[row.mark]
  /\ row.effectiveRequired = (IF row.inSection THEN row.required * 2 ELSE row.required)
  /\ row.diff = row.tally - row.effectiveRequired

\* C12: in the doubling build every row agrees with the store before and
\* after every step (compare, toggleInSection, toggleIgnore, a change of
\* the global flag, an upload), and a toggleInSection(m) step leaves the
\* rows of every other mark as they are and changes no other field of the
\* rows of m.
C12_RowsAgreeWithStore ==
  [][variant = "double" =>
       /\ \A n \in 1..Len(results) : RowAgrees(results[n], inSectionRows)
       /\ \A n \in 1..Len(results') : RowAgrees(results'[n], inSectionRows')
       /\ \A m \in AllMarks :
            toggleInSection(m) =>
              /\ Len(results') = Len(results)
              /\ \A n \in 1..Len(results) :
                   IF results[n].mark = m
                   THEN results'[n] =
                          [results[n] EXCEPT !.inSection = results'[n].inSection,
                                             !.effectiveRequired = results'[n].effectiveRequired,
                                             !.diff = results'[n].diff]
                   ELSE results'[n] = results[n]]_vars

\* a row put in section view by its checkbox while the global flag is off
\* (required doubled, diff recomputed), beside a row of another mark that
\* is not in section view
C12_Witness ==
  /\ variant = "double"
  /\ clicks > 0
  /\ ~sectionAndLayout
  /\ \E i, j \in 1..Len(results) :
       /\ results[i].mark # results[j].mark
       /\ results[i].inSection
       /\ results[i].required > 0
       /\ results[i].effectiveRequired = 2 * results[i].required
       /\ results[i].diff = results[i].tally - 2 * results[i].required
       /\ ~results[j].inSection

\* C13: whenever no extraction of a slot is in flight, the text of the slot
\* is the text extracted from the file last selected for the slot (the
\* empty text if its extraction failed), in whatever order the extractions
\* started for the slot ended.
C13_TextOfLastSelection ==
  /\ (pending[1] = <<>> /\ file1 # NoFile) => text1 = UploadedText(file1)
  /\ (pending[2] = <<>> /\ file2 # NoFile) => text2 = UploadedText(file2)

====
